---- MODULE Spec2Model ----
(***************************************************************************)
(* Model of the Graspify game store (src/src/lib/gemini.ts, the zustand    *)
(* store useGameStore): user profile with XP, level and streak, badges,    *)
(* daily missions and activity counters, together with the clock the       *)
(* store reads through `new Date()`.                                       *)
(***************************************************************************)
EXTENDS Integers, Sequences, FiniteSets, TLC

(***************************************************************************)
(* Bounds of the model.                                                    *)
(***************************************************************************)
MaxCalls == 3        \* Spec: store operations and day changes in one run
MaxDay == 1          \* Spec: days that pass in one run
StreakCalls == 4     \* SpecStreak: store operations in one run
StreakDays == 2      \* SpecStreak: days that pass in one run
RewardDays == 30     \* SpecRewards: days that pass in one run
RewardDirect == 1    \* SpecRewards: addXP / unlockBadge calls in one run
MissionCalls == 12   \* SpecMissions: store operations in one run
DailyDays == 3       \* SpecDaily: days that pass in one run
DailyCalls == 3      \* SpecDaily: updateMissionProgress calls in one run
StatCalls == 52      \* SpecStats: store operations in one run
StatDirect == 1      \* SpecStats: unlockBadge calls by a page in one run
ProfileDays == 31    \* SpecProfile: days that pass in one run
ProfileCalls == 2    \* SpecProfile: store operations in one run
LevelCalls == 3      \* SpecLevels: store operations in one run
TabCalls == 3        \* SpecTabs: addXP calls in one run, over both tabs
LevelFnCalls == 2    \* SpecLevelFn: calculateLevel calls in one run
MaxXP == 250         \* SpecLevelFn: every xp from 0 to MaxXP is an input
MaxLevel == 10       \* SpecLevelFn: the xp around each level up to MaxLevel is an input
XPCalls == 2         \* SpecXP: store operations in one run
AuthCalls == 3       \* SpecAuth: store operations in one run
AuthDays == 1        \* SpecAuth: days that pass in one run
ToastCalls == 4      \* SpecToasts: toast, update and dismiss calls in one run
MaxToasts == 3       \* SpecToasts: toasts created in one run
HookCalls == 2       \* SpecHooks: solve() calls in one run

(***************************************************************************)
(* The clock.  An instant is a UTC day and a UTC hour; toISOString() gives *)
(* the UTC date of an instant.  The browser's time zone may change its     *)
(* clocks once during a run, at 07:00 UTC of some day: forward, so that    *)
(* the local day across the change has 23 hours, or back, 25 hours.        *)
(***************************************************************************)
Hours == {0, 12, 23}
ChangeHour == 7
NoTime == [day |-> -9, hour |-> 0]
NoChange == [hours |-> 24, day |-> -9]

\* the time zones of a run of at most days days
Zones(days) == [hours : {23, 25}, day : 0..days] \cup {NoChange}

\* hours from instant t back to the same local wall-clock time on the
\* previous local calendar day, in time zone z
LocalDayHours(t, z) ==
    LET sinceChange == (t.day - z.day) * 24 + t.hour - ChangeHour
    IN IF z # NoChange /\ 0 <= sinceChange /\ sinceChange < z.hours
       THEN z.hours ELSE 24

\* floor(a / 24) for any integer a
FloorDiv24(a) == IF a >= 0 THEN a \div 24 ELSE -(((-a) + 23) \div 24)

\* new Date().toISOString().split('T')[0]
TodayStr(t) == t.day

\* yesterday.setDate(getDate() - 1) moves the local wall clock back one
\* local calendar day; toISOString() then takes the UTC date of that instant.
YesterdayStr(t, z) == t.day + FloorDiv24(t.hour - LocalDayHours(t, z))

(***************************************************************************)
(* Catalogs.                                                               *)
(***************************************************************************)
Badge(id, xpReward) ==
    [id |-> id, xpReward |-> xpReward, unlocked |-> FALSE, unlockedAt |-> NoTime]

BADGES ==
    << Badge("first_step", 25), Badge("correct_step", 50),
       Badge("quiz_master", 100), Badge("perfect_score", 150),
       Badge("flashcard_fan", 75), Badge("week_streak", 200),
       Badge("study_planner", 50), Badge("doubt_solver", 100),
       Badge("level_10", 250), Badge("ocr_explorer", 50) >>

BadgeIds == {BADGES[i].id : i \in 1..Len(BADGES)}

DAILY_MISSIONS ==
    << [id |-> "mission_quiz", type |-> "quiz", target |-> 2, xpReward |-> 75],
       [id |-> "mission_flashcard", type |-> "flashcard", target |-> 15, xpReward |-> 50],
       [id |-> "mission_doubt", type |-> "doubt", target |-> 3, xpReward |-> 60],
       [id |-> "mission_study", type |-> "study", target |-> 1, xpReward |-> 40] >>

MissionTypes == {"quiz", "flashcard", "doubt", "streak", "study"}

XPEventTypes == {"correct_step", "submit_step", "complete_quiz", "perfect_quiz",
                 "review_flashcard", "complete_mission", "streak_bonus"}

XP_REWARDS ==
    [type \in XPEventTypes |->
        CASE type = "correct_step" -> 10
          [] type = "submit_step" -> 2
          [] type = "complete_quiz" -> 50
          [] type = "perfect_quiz" -> 25
          [] type = "review_flashcard" -> 3
          [] type = "complete_mission" -> 0
          [] type = "streak_bonus" -> 0]

StatNames == {"quizzesCompleted", "flashcardsReviewed", "doubtsAsked",
              "stepsSubmitted", "correctSteps", "studyPlansCreated",
              "imagesUploaded"}

\* customAmount is optional: NoAmount stands for an omitted argument
NoAmount == -1

(***************************************************************************)
(* Pure helpers.                                                           *)
(***************************************************************************)
\* variant: the square root is rounded to the nearest integer
calculateLevelRounded(xp) ==
    (CHOOSE k \in 0..((xp \div 100) + 1) :
        /\ (k = 0 \/ (2 * k - 1) * (2 * k - 1) * 25 <= xp)
        /\ xp < (2 * k + 1) * (2 * k + 1) * 25) + 1

\* Math.floor(Math.sqrt(xp / 100)) + 1
calculateLevel(xp) ==
    (CHOOSE k \in 0..((xp \div 100) + 1) :
        k * k * 100 <= xp /\ xp < (k + 1) * (k + 1) * 100) + 1

\* variant: the tiers start one day later (> in place of >=)
getStreakMultiplierExclusive(streak) ==
    IF streak > 30 THEN 200
    ELSE IF streak > 14 THEN 175
    ELSE IF streak > 7 THEN 150
    ELSE IF streak > 3 THEN 125
    ELSE 100

\* the multiplier in hundredths: 2.0 is 200, 1.75 is 175, ...
getStreakMultiplier(streak) ==
    IF streak >= 30 THEN 200
    ELSE IF streak >= 14 THEN 175
    ELSE IF streak >= 7 THEN 150
    ELSE IF streak >= 3 THEN 125
    ELSE 100

\* variant: the product is rounded up instead of down
FloorTimesRoundsUp(baseXP, multiplier) == (baseXP * multiplier + 99) \div 100

\* Math.floor(baseXP * multiplier)
FloorTimes(baseXP, multiplier) == (baseXP * multiplier) \div 100

(***************************************************************************)
(* State.                                                                  *)
(***************************************************************************)
VARIABLES
    user,           \* [name, xp, level, streak, lastActiveDate, badges]
    badges,         \* sequence of badges, in catalog order
    missions,       \* sequence of missions, in catalog order
    stats,          \* StatNames -> Nat
    authSession,    \* localStorage has an 'auth-session' entry
    now,            \* the instant new Date() returns
    zone,           \* the daylight-saving change of the browser's time zone
    ret,            \* the last store operation: its arguments and what it returned
    hist,           \* history: rewards granted, the current run of active days,
                    \* the xpGained of the addXP calls since the profile was reset
    budget,         \* what the run may still do: [steps, days, rewards]
    storageOwner,   \* the tab that wrote localStorage['graspify-game-storage'] last
    otherTab,       \* the store of a second tab of the same browser: [open, s]
    memoryState,    \* use-toast: the global toast state, [toasts]
    toastTimeouts,  \* use-toast: the ids that have an entry in the Map
    timers,         \* use-toast: per toast id, the removal timers set and not yet fired
    count,          \* use-toast: the id counter
    hookState,      \* useDoubtSolver: the hook's state, [data, loading, error]
    requests        \* useDoubtSolver: the solve() calls in the order they started

vars == <<user, badges, missions, stats, authSession, now, zone, ret, hist, budget,
          storageOwner, otherTab, memoryState, toastTimeouts, timers, count,
          hookState, requests>>

toastVars == <<memoryState, toastTimeouts, timers, count>>

hookVars == <<hookState, requests>>

DefaultUser(t) ==
    [name |-> "Learner", xp |-> 0, level |-> 1, streak |-> 0,
     lastActiveDate |-> TodayStr(t), badges |-> <<>>]

FreshMissions ==
    [i \in 1..Len(DAILY_MISSIONS) |->
        [id |-> DAILY_MISSIONS[i].id, type |-> DAILY_MISSIONS[i].type,
         target |-> DAILY_MISSIONS[i].target, xpReward |-> DAILY_MISSIONS[i].xpReward,
         progress |-> 0, completed |-> FALSE]]

MissionIds == {DAILY_MISSIONS[i].id : i \in 1..Len(DAILY_MISSIONS)}

NullBadge == [id |-> "null", xpReward |-> 0, unlocked |-> FALSE, unlockedAt |-> NoTime]

\* a call and its return value, as one record shape: op is the operation,
\* arg and num its arguments; newLevel 0 stands for undefined, NullBadge for
\* null; value is what a getter returned
VoidRet(op, arg, num) ==
    [op |-> op, arg |-> arg, num |-> num, xpGained |-> 0, leveledUp |-> FALSE,
     newLevel |-> 0, badge |-> NullBadge, value |-> <<>>]
AddXPRet(type, customAmount, r) ==
    [op |-> "addXP", arg |-> type, num |-> customAmount, xpGained |-> r.xpGained,
     leveledUp |-> r.leveledUp, newLevel |-> r.newLevel, badge |-> NullBadge,
     value |-> <<>>]
UnlockRet(badgeId, badge) ==
    [op |-> "unlockBadge", arg |-> badgeId, num |-> 0, xpGained |-> 0,
     leveledUp |-> FALSE, newLevel |-> 0, badge |-> badge, value |-> <<>>]
GetterRet(op, value) == [VoidRet(op, "", 0) EXCEPT !.value = value]

\* the store as one value: what get() returns, with the history alongside
Store == [user |-> user, badges |-> badges, missions |-> missions, stats |-> stats,
          hist |-> hist]

\* what the persist middleware writes: the data fields of the store
Persisted(s) ==
    [user |-> s.user, badges |-> s.badges, missions |-> s.missions, stats |-> s.stats]

\* the persisted state.  The state of a tab changes only through set(), and
\* on every set() the middleware writes the whole state of that tab: the
\* storage holds the state of the tab that wrote last.
storage == Persisted(IF storageOwner = "main" THEN Store ELSE otherTab.s)

InitHist ==
    [badgeAwards |-> [b \in BadgeIds |-> 0],
     missionAwards |-> [m \in MissionIds |-> 0],
     activeRun |-> {},
     lastAwards |-> 0,
     xpGained |-> 0]

\* a store created while the storage holds st: the persisted fields replace
\* the initial ones
Hydrate(st) ==
    [user |-> st.user, badges |-> st.badges, missions |-> st.missions,
     stats |-> st.stats, hist |-> InitHist]

InitStore ==
    /\ now \in [day : {0}, hour : Hours]
    /\ user = DefaultUser(now)
    /\ badges = BADGES
    /\ missions = FreshMissions
    /\ stats = [s \in StatNames |-> 0]
    /\ authSession = FALSE
    /\ ret = VoidRet("init", "", 0)
    /\ hist = InitHist
    /\ storageOwner = "main"
    /\ otherTab = [open |-> FALSE, s |-> <<>>]
    /\ memoryState = [toasts |-> <<>>]
    /\ toastTimeouts = {}
    /\ timers = [id \in 1..MaxToasts |-> 0]
    /\ count = 0
    /\ hookState = [data |-> "null", loading |-> FALSE, error |-> "null"]
    /\ requests = <<>>

\* noon, in a time zone that does not change its clocks
RegularClock == now.hour = 12 /\ zone = NoChange

Init ==
    /\ InitStore
    /\ RegularClock
    /\ budget = [steps |-> MaxCalls, days |-> MaxDay, rewards |-> MaxCalls]

(***************************************************************************)
(* Store operations, as functions from the store get() returns (and the    *)
(* instant t read from the clock) to the store after the operation.        *)
(***************************************************************************)
Min(a, b) == IF a <= b THEN a ELSE b

\* state.badges.find(b => b.id === badgeId): index of the first match, 0 if none
FindBadge(bs, badgeId) ==
    IF \E i \in 1..Len(bs) : bs[i].id = badgeId
    THEN CHOOSE i \in 1..Len(bs) :
            bs[i].id = badgeId /\ \A j \in 1..(i - 1) : bs[j].id # badgeId
    ELSE 0

\* variant: only an unknown badge is refused
NothingToUnlockUnknownOnly(bs, i) == i = 0

\* if (!badge || badge.unlocked) return null
NothingToUnlock(bs, i) == IF i = 0 THEN TRUE ELSE bs[i].unlocked

\* variant: the badge reward goes through the streak multiplier
XPWithBadgeMultiplied(u, badge) ==
    u.xp + FloorTimes(badge.xpReward, getStreakMultiplier(u.streak))

\* xp: state.user.xp + badge.xpReward
XPWithBadge(u, badge) == u.xp + badge.xpReward

\* return { ...badge, unlocked: true }, of the badge found before the update
ReturnedBadge(badge) == [badge EXCEPT !.unlocked = TRUE]

unlockBadge(s, badgeId, t) ==
    LET i == FindBadge(s.badges, badgeId) IN
    IF NothingToUnlock(s.badges, i) THEN [s |-> s, badge |-> NullBadge]
    ELSE
      LET badge == s.badges[i]
          updatedBadges ==
              [j \in 1..Len(s.badges) |->
                  IF s.badges[j].id = badgeId
                  THEN [s.badges[j] EXCEPT !.unlocked = TRUE, !.unlockedAt = t]
                  ELSE s.badges[j]]
      IN [s |-> [s EXCEPT !.badges = updatedBadges,
                          !.user.badges = Append(@, badgeId),
                          !.user.xp = XPWithBadge(s.user, badge),
                          !.hist.badgeAwards[badgeId] = @ + 1],
          badge |-> ReturnedBadge(badge)]

\* variant: the new level is returned whether or not the level went up
addXPAlwaysNewLevel(s, type, customAmount, t) ==
    LET baseXP == IF customAmount # NoAmount THEN customAmount ELSE XP_REWARDS[type]
        xpGained == FloorTimes(baseXP, getStreakMultiplier(s.user.streak))
        newXP == s.user.xp + xpGained
        newLevel == calculateLevel(newXP)
        s1 == [s EXCEPT !.user.xp = newXP, !.user.level = newLevel,
                        !.hist.xpGained = @ + xpGained]
    IN [s |-> IF newLevel >= 10 THEN unlockBadge(s1, "level_10", t).s ELSE s1,
        xpGained |-> xpGained, leveledUp |-> newLevel > s.user.level,
        newLevel |-> newLevel]

addXP(s, type, customAmount, t) ==
    LET baseXP == IF customAmount # NoAmount THEN customAmount ELSE XP_REWARDS[type]
        multiplier == getStreakMultiplier(s.user.streak)
        xpGained == FloorTimes(baseXP, multiplier)
        newXP == s.user.xp + xpGained
        newLevel == calculateLevel(newXP)
        leveledUp == newLevel > s.user.level
        s1 == [s EXCEPT !.user.xp = newXP, !.user.level = newLevel,
                        !.hist.xpGained = @ + xpGained]
    IN [s |-> IF newLevel >= 10 THEN unlockBadge(s1, "level_10", t).s ELSE s1,
        xpGained |-> xpGained, leveledUp |-> leveledUp,
        newLevel |-> IF leveledUp THEN newLevel ELSE 0]

\* history only: the unbroken run of days with an updateStreak call that
\* ends today, given the run that ended at the previous call (on today or
\* on an earlier day)
ExtendRun(run, today) ==
    IF today \in run THEN run
    ELSE IF today - 1 \in run THEN run \cup {today}
    ELSE {today}

\* variant: the streak is updated and the week_streak badge is left alone
updateStreakNoBadge(s, t, z) ==
    LET today == TodayStr(t)
        lastActive == s.user.lastActiveDate
        newStreak == IF lastActive = YesterdayStr(t, z) THEN s.user.streak + 1
                     ELSE IF lastActive # today THEN 1
                     ELSE s.user.streak
    IN [s EXCEPT !.user.streak = newStreak,
                 !.user.lastActiveDate = today,
                 !.hist.activeRun = ExtendRun(@, today)]

updateStreak(s, t, z) ==
    LET today == TodayStr(t)
        lastActive == s.user.lastActiveDate
        yesterdayStr == YesterdayStr(t, z)
        newStreak == IF lastActive = yesterdayStr THEN s.user.streak + 1
                     ELSE IF lastActive # today THEN 1
                     ELSE s.user.streak
        s1 == [s EXCEPT !.user.streak = newStreak,
                        !.user.lastActiveDate = today,
                        !.hist.activeRun = ExtendRun(@, today)]
    IN IF newStreak >= 7 THEN unlockBadge(s1, "week_streak", t).s ELSE s1

\* if (m.type === type && !m.completed)
TakesProgress(m, type) == m.type = type /\ ~m.completed

\* variant: progress is not clamped to the target
AdvanceMissionUnclamped(m, type, amount) ==
    IF TakesProgress(m, type)
    THEN LET newProgress == m.progress + amount
         IN [m EXCEPT !.progress = newProgress, !.completed = (newProgress >= m.target)]
    ELSE m

\* variant: a mission completes only beyond its target
AdvanceMissionStrict(m, type, amount) ==
    IF TakesProgress(m, type)
    THEN LET newProgress == Min(m.progress + amount, m.target)
         IN [m EXCEPT !.progress = newProgress, !.completed = (newProgress > m.target)]
    ELSE m

\* what the map callback of updateMissionProgress returns for mission m
AdvanceMission(m, type, amount) ==
    IF TakesProgress(m, type)
    THEN LET newProgress == Min(m.progress + amount, m.target)
         IN [m EXCEPT !.progress = newProgress, !.completed = (newProgress >= m.target)]
    ELSE m

\* the addXP calls the map callback makes, for the missions i..Len in order
RECURSIVE AwardCompleted(_, _, _, _, _)
AwardCompleted(s, type, amount, t, i) ==
    IF i > Len(s.missions) THEN s
    ELSE LET m == s.missions[i]
             m2 == AdvanceMission(m, type, amount)
             s1 == IF TakesProgress(m, type) /\ m2.completed /\ ~m.completed
                   THEN [addXP(s, "complete_mission", m.xpReward, t).s
                            EXCEPT !.hist.missionAwards[m.id] = @ + 1,
                                   !.hist.lastAwards = @ + 1]
                   ELSE s
         IN AwardCompleted(s1, type, amount, t, i + 1)

\* variant: the final set() writes the user of the snapshot taken at entry
updateMissionProgressStaleUser(s, type, amount, t) ==
    [AwardCompleted([s EXCEPT !.hist.lastAwards = 0], type, amount, t, 1)
        EXCEPT !.missions = [i \in 1..Len(s.missions) |->
                                AdvanceMission(s.missions[i], type, amount)],
               !.user = s.user]

updateMissionProgress(s, type, amount, t) ==
    LET updatedMissions ==
            [i \in 1..Len(s.missions) |-> AdvanceMission(s.missions[i], type, amount)]
        s0 == [s EXCEPT !.hist.lastAwards = 0]
    IN [AwardCompleted(s0, type, amount, t, 1) EXCEPT !.missions = updatedMissions]

\* variant: the reset zeroes the progress and keeps the completion flag
resetDailyMissionsKeepsCompleted(s) ==
    [s EXCEPT !.missions = [i \in 1..Len(s.missions) |->
                               [s.missions[i] EXCEPT !.progress = 0]],
              !.hist.missionAwards = [m \in MissionIds |-> 0]]

resetDailyMissions(s) ==
    [s EXCEPT !.missions = FreshMissions,
              !.hist.missionAwards = [m \in MissionIds |-> 0]]

\* one badge check of incrementStat: if (cond) get().unlockBadge(badgeId)
UnlockIf(s, cond, badgeId, t) == IF cond THEN unlockBadge(s, badgeId, t).s ELSE s

\* variant: the counter is incremented and no badge rule is evaluated
incrementStatNoBadges(s, stat, t) == [s EXCEPT !.stats[stat] = @ + 1]

incrementStat(s, stat, t) ==
    LET newStats == [s.stats EXCEPT ![stat] = @ + 1]
        s0 == [s EXCEPT !.stats = newStats]
        s1 == UnlockIf(s0, stat = "stepsSubmitted" /\ newStats.stepsSubmitted = 1, "first_step", t)
        s2 == UnlockIf(s1, stat = "correctSteps" /\ newStats.correctSteps = 1, "correct_step", t)
        s3 == UnlockIf(s2, stat = "quizzesCompleted" /\ newStats.quizzesCompleted >= 5, "quiz_master", t)
        s4 == UnlockIf(s3, stat = "flashcardsReviewed" /\ newStats.flashcardsReviewed >= 50, "flashcard_fan", t)
        s5 == UnlockIf(s4, stat = "studyPlansCreated" /\ newStats.studyPlansCreated = 1, "study_planner", t)
        s6 == UnlockIf(s5, stat = "doubtsAsked" /\ newStats.doubtsAsked >= 10, "doubt_solver", t)
    IN UnlockIf(s6, stat = "imagesUploaded" /\ newStats.imagesUploaded >= 5, "ocr_explorer", t)

\* { current, next, progress }, the progress (a percentage) in hundredths
\* of a percent, rounded down
getLevelProgress(s) ==
    LET xp == s.user.xp
        level == s.user.level
        currentLevelXP == (level - 1) * (level - 1) * 100
        nextLevelXP == level * level * 100
        progress == ((xp - currentLevelXP) * 10000) \div (nextLevelXP - currentLevelXP)
    IN <<xp - currentLevelXP, nextLevelXP - currentLevelXP, progress>>

\* updates carries the name (login and registration pass name and email)
setUser(s, name) == [s EXCEPT !.user.name = name]

\* variant: logout also puts the badge catalog back
logoutResetsBadges(s, t) ==
    [s EXCEPT !.user = DefaultUser(t), !.badges = BADGES, !.hist.xpGained = 0]

\* variant: logout also zeroes the activity counters
logoutResetsStats(s, t) ==
    [s EXCEPT !.user = DefaultUser(t), !.stats = [n \in StatNames |-> 0],
              !.hist.xpGained = 0]

\* variant: logout keeps the XP of the profile
logoutKeepsXP(s, t) ==
    [s EXCEPT !.user = [DefaultUser(t) EXCEPT !.xp = s.user.xp], !.hist.xpGained = 0]

\* the store part of logout: the user is replaced by the default profile
logout(s, t) == [s EXCEPT !.user = DefaultUser(t), !.hist.xpGained = 0]

(***************************************************************************)
(* Inputs the operations are explored with.                                *)
(***************************************************************************)
CustomAmounts == {NoAmount, 20}
BadgeInputs == BadgeIds \cup {"no_such_badge"}
Amounts == {1, 2}
UserNames == {"Asha"}
\* overrides that carry a player to the levels around 10 in a few calls
LargeAmounts == {100, 8000}
\* the xp calculateLevel is applied to: a stretch from 0 and both sides of
\* each level boundary
XPInputs ==
    (0..MaxXP) \cup {L * L * 100 - d : L \in 1..MaxLevel, d \in {0, 1}}

(***************************************************************************)
(* Actions: one per store operation, plus login and the passing of time.   *)
(***************************************************************************)
\* the operation has called set(): the store is replaced and the persist
\* middleware writes it to the storage
Apply(s, r) ==
    /\ user' = s.user
    /\ badges' = s.badges
    /\ missions' = s.missions
    /\ stats' = s.stats
    /\ hist' = s.hist
    /\ ret' = r
    /\ storageOwner' = "main"
    /\ otherTab' = otherTab
    /\ UNCHANGED <<toastVars, hookVars>>

\* a store call: direct is 1 for addXP and unlockBadge called by a page
Call(s, r, direct) ==
    /\ budget.steps > 0
    /\ budget.rewards >= direct
    /\ budget' = [budget EXCEPT !.steps = @ - 1, !.rewards = @ - direct]
    /\ Apply(s, r)

\* a store call that returns without calling set()
Read(r, direct) ==
    /\ budget.steps > 0
    /\ budget.rewards >= direct
    /\ budget' = [budget EXCEPT !.steps = @ - 1, !.rewards = @ - direct]
    /\ ret' = r
    /\ UNCHANGED <<user, badges, missions, stats, hist, storageOwner, otherTab>>
    /\ UNCHANGED <<toastVars, hookVars>>

Later(t, u) == u.day > t.day \/ (u.day = t.day /\ u.hour > t.hour)

\* time passes, to a later hour of the day or into the next day
Tick ==
    /\ \E u \in [day : {now.day, now.day + 1}, hour : Hours] :
          /\ Later(now, u)
          /\ budget.days >= u.day - now.day
          /\ now' = u
          /\ budget' = [budget EXCEPT !.days = @ - (u.day - now.day)]
    /\ UNCHANGED <<user, badges, missions, stats, authSession, zone, ret, hist,
                   storageOwner, otherTab>>
    /\ UNCHANGED <<toastVars, hookVars>>

\* a whole day passes; it counts as one step of the run
NextDay ==
    /\ budget.days > 0
    /\ budget.steps > 0
    /\ now' = [now EXCEPT !.day = @ + 1]
    /\ budget' = [budget EXCEPT !.days = @ - 1, !.steps = @ - 1]
    /\ UNCHANGED <<user, badges, missions, stats, authSession, zone, ret, hist,
                   storageOwner, otherTab>>
    /\ UNCHANGED <<toastVars, hookVars>>

\* the app is opened on the next day: AppLayout mounts and its effect
\* calls updateStreak
OpenAppNextDay ==
    /\ budget.days > 0
    /\ now' = [now EXCEPT !.day = @ + 1]
    /\ budget' = [budget EXCEPT !.days = @ - 1]
    /\ Apply(updateStreak(Store, now', zone), VoidRet("updateStreak", "", 0))
    /\ UNCHANGED <<authSession, zone>>

CallAddXP ==
    /\ \E type \in XPEventTypes, customAmount \in CustomAmounts :
          LET r == addXP(Store, type, customAmount, now)
          IN Call(r.s, AddXPRet(type, customAmount, r), 1)
    /\ UNCHANGED <<authSession, now, zone>>

\* addXP with a large override
CallAddXPLarge ==
    /\ \E type \in XPEventTypes, customAmount \in LargeAmounts :
          LET r == addXP(Store, type, customAmount, now)
          IN Call(r.s, AddXPRet(type, customAmount, r), 1)
    /\ UNCHANGED <<authSession, now, zone>>

CallUpdateStreak ==
    /\ Call(updateStreak(Store, now, zone), VoidRet("updateStreak", "", 0), 0)
    /\ UNCHANGED <<authSession, now, zone>>

CallUnlockBadge ==
    /\ \E badgeId \in BadgeInputs :
          LET r == unlockBadge(Store, badgeId, now)
          IN IF r.badge = NullBadge
             THEN Read(UnlockRet(badgeId, r.badge), 1)
             ELSE Call(r.s, UnlockRet(badgeId, r.badge), 1)
    /\ UNCHANGED <<authSession, now, zone>>

CallUpdateMissionProgress ==
    /\ \E type \in MissionTypes, amount \in Amounts :
          Call(updateMissionProgress(Store, type, amount, now),
                VoidRet("updateMissionProgress", type, amount), 0)
    /\ UNCHANGED <<authSession, now, zone>>

CallResetDailyMissions ==
    /\ Call(resetDailyMissions(Store), VoidRet("resetDailyMissions", "", 0), 0)
    /\ UNCHANGED <<authSession, now, zone>>

CallIncrementStat ==
    /\ \E stat \in StatNames :
          Call(incrementStat(Store, stat, now), VoidRet("incrementStat", stat, 0), 0)
    /\ UNCHANGED <<authSession, now, zone>>

\* a page increments the one counter that the run exercises
CallIncrementOneStat ==
    /\ \E stat \in StatNames :
          /\ \A other \in StatNames \ {stat} : stats[other] = 0
          /\ Call(incrementStat(Store, stat, now), VoidRet("incrementStat", stat, 0), 0)
    /\ UNCHANGED <<authSession, now, zone>>

\* the dashboard reads the multiplier: the store is left as it is
CallGetStreakMultiplier ==
    /\ Read(GetterRet("getStreakMultiplier", <<getStreakMultiplier(user.streak)>>), 0)
    /\ UNCHANGED <<authSession, now, zone>>

\* the sidebar and the dashboard read the level progress
CallGetLevelProgress ==
    /\ Read(GetterRet("getLevelProgress", getLevelProgress(Store)), 0)
    /\ UNCHANGED <<authSession, now, zone>>

\* a second tab is opened: its store is created from the storage
OpenOtherTab ==
    /\ ~otherTab.open
    /\ otherTab' = [open |-> TRUE, s |-> Hydrate(storage)]
    /\ storageOwner' = "other"
    /\ UNCHANGED <<user, badges, missions, stats, authSession, now, zone, ret, hist,
                   budget>>
    /\ UNCHANGED <<toastVars, hookVars>>

\* a page of the second tab calls addXP on that tab's store
OtherTabAddXP ==
    /\ otherTab.open
    /\ budget.steps > 0
    /\ \E type \in XPEventTypes, customAmount \in CustomAmounts :
          LET r == addXP(otherTab.s, type, customAmount, now)
          IN /\ otherTab' = [otherTab EXCEPT !.s = r.s]
             /\ storageOwner' = "other"
             /\ ret' = [AddXPRet(type, customAmount, r) EXCEPT !.op = "otherTab.addXP"]
    /\ budget' = [budget EXCEPT !.steps = @ - 1]
    /\ UNCHANGED <<user, badges, missions, stats, authSession, now, zone, hist>>
    /\ UNCHANGED <<toastVars, hookVars>>

\* calculateLevel(xp), applied to an xp of XPInputs
CallCalculateLevel ==
    /\ \E xp \in XPInputs :
          Read([GetterRet("calculateLevel", <<calculateLevel(xp)>>) EXCEPT !.num = xp], 0)
    /\ UNCHANGED <<authSession, now, zone>>

\* isAuthenticated(): !!localStorage.getItem('auth-session')
CallIsAuthenticated ==
    /\ Read(GetterRet("isAuthenticated", <<authSession>>), 0)
    /\ UNCHANGED <<authSession, now, zone>>

CallSetUser ==
    /\ \E name \in UserNames : Call(setUser(Store, name), VoidRet("setUser", name, 0), 0)
    /\ UNCHANGED <<authSession, now, zone>>

\* the login handler: setUser, then localStorage.setItem('auth-session', ...)
Login ==
    /\ \E name \in UserNames : Call(setUser(Store, name), VoidRet("login", name, 0), 0)
    /\ authSession' = TRUE
    /\ UNCHANGED <<now, zone>>

CallLogout ==
    /\ authSession' = FALSE
    /\ Call(logout(Store, now), VoidRet("logout", "", 0), 0)
    /\ UNCHANGED <<now, zone>>

Next ==
    \/ NextDay
    \/ CallAddXP
    \/ CallUpdateStreak
    \/ CallUnlockBadge
    \/ CallUpdateMissionProgress
    \/ CallResetDailyMissions
    \/ CallIncrementStat
    \/ CallSetUser
    \/ Login
    \/ CallLogout

Spec == Init /\ [][Next]_vars

(***************************************************************************)
(* The streak at any hour of the day and in any time zone.                 *)
(***************************************************************************)
InitStreak ==
    /\ InitStore
    /\ zone \in Zones(StreakDays)
    /\ budget = [steps |-> StreakCalls, days |-> StreakDays, rewards |-> 0]

NextStreak ==
    \/ Tick
    \/ CallUpdateStreak
    \/ CallLogout

SpecStreak == InitStreak /\ [][NextStreak]_vars

(***************************************************************************)
(* Rewards at every streak: the app is opened day after day, and a page   *)
(* calls addXP or unlockBadge.                                             *)
(***************************************************************************)
InitRewards ==
    /\ InitStore
    /\ RegularClock
    /\ budget = [steps |-> RewardDirect, days |-> RewardDays, rewards |-> RewardDirect]

NextRewards ==
    \/ OpenAppNextDay
    \/ CallAddXP
    \/ CallUnlockBadge

SpecRewards == InitRewards /\ [][NextRewards]_vars

(***************************************************************************)
(* The missions of one day and their resets.                               *)
(***************************************************************************)
InitMissions ==
    /\ InitStore
    /\ RegularClock
    /\ budget = [steps |-> MissionCalls, days |-> 0, rewards |-> 0]

NextMissions ==
    \/ CallUpdateMissionProgress
    \/ CallResetDailyMissions

SpecMissions == InitMissions /\ [][NextMissions]_vars

(***************************************************************************)
(* Missions over several days: the app is opened day after day and pages   *)
(* report progress.                                                        *)
(***************************************************************************)
InitDaily ==
    /\ InitStore
    /\ RegularClock
    /\ budget = [steps |-> DailyCalls, days |-> DailyDays, rewards |-> 0]

NextDaily ==
    \/ OpenAppNextDay
    \/ CallUpdateMissionProgress

SpecDaily == InitDaily /\ [][NextDaily]_vars

(***************************************************************************)
(* One activity counter, incremented up to and beyond its badge rule; a    *)
(* page may also unlock a badge directly.                                  *)
(***************************************************************************)
InitStats ==
    /\ InitStore
    /\ RegularClock
    /\ budget = [steps |-> StatCalls, days |-> 0, rewards |-> StatDirect]

NextStats ==
    \/ CallIncrementOneStat
    \/ CallUnlockBadge

SpecStats == InitStats /\ [][NextStats]_vars

(***************************************************************************)
(* The profile the dashboard shows, over a month of daily visits.          *)
(***************************************************************************)
InitProfile ==
    /\ InitStore
    /\ RegularClock
    /\ budget = [steps |-> ProfileCalls, days |-> ProfileDays, rewards |-> 0]

NextProfile ==
    \/ OpenAppNextDay
    \/ CallGetStreakMultiplier
    \/ CallLogout

SpecProfile == InitProfile /\ [][NextProfile]_vars

(***************************************************************************)
(* Levels: large XP awards, badge unlocks and the progress bar.            *)
(***************************************************************************)
InitLevels ==
    /\ InitStore
    /\ RegularClock
    /\ budget = [steps |-> LevelCalls, days |-> 0, rewards |-> LevelCalls]

NextLevels ==
    \/ CallAddXPLarge
    \/ CallUnlockBadge
    \/ CallGetLevelProgress
    \/ CallLogout

SpecLevels == InitLevels /\ [][NextLevels]_vars

(***************************************************************************)
(* Two tabs of one browser, each with its own store over the same storage. *)
(***************************************************************************)
InitTabs ==
    /\ InitStore
    /\ RegularClock
    /\ budget = [steps |-> TabCalls, days |-> 0, rewards |-> TabCalls]

NextTabs ==
    \/ OpenOtherTab
    \/ CallAddXP
    \/ OtherTabAddXP

SpecTabs == InitTabs /\ [][NextTabs]_vars

(***************************************************************************)
(* The level function, applied to one xp after another.                    *)
(***************************************************************************)
InitLevelFn ==
    /\ InitStore
    /\ RegularClock
    /\ budget = [steps |-> LevelFnCalls, days |-> 0, rewards |-> 0]

NextLevelFn == CallCalculateLevel

SpecLevelFn == InitLevelFn /\ [][NextLevelFn]_vars

(***************************************************************************)
(* Where XP comes from: the operations that award XP, directly or through  *)
(* a nested call, on a profile that is never reset.                        *)
(***************************************************************************)
InitXP ==
    /\ InitStore
    /\ RegularClock
    /\ budget = [steps |-> XPCalls, days |-> 0, rewards |-> XPCalls]

NextXP ==
    \/ CallAddXP
    \/ CallUnlockBadge
    \/ CallUpdateMissionProgress
    \/ CallIncrementStat

SpecXP == InitXP /\ [][NextXP]_vars

(***************************************************************************)
(* Sessions: login, activity, logout, at any hour.                         *)
(***************************************************************************)
InitAuth ==
    /\ InitStore
    /\ zone = NoChange
    /\ budget = [steps |-> AuthCalls, days |-> AuthDays, rewards |-> AuthCalls]

NextAuth ==
    \/ Tick
    \/ Login
    \/ CallAddXP
    \/ CallUpdateStreak
    \/ CallLogout
    \/ CallIsAuthenticated

SpecAuth == InitAuth /\ [][NextAuth]_vars

(***************************************************************************)
(* The toast module (hooks/use-toast.ts): one global state, a reducer, a   *)
(* Map of pending removal timers and an id counter.  A toast is            *)
(* [id, title, open]; ids are the counter's values, 0 stands for           *)
(* undefined.                                                              *)
(***************************************************************************)
TOAST_LIMIT == 1

Undefined == 0

Titles == {"Saved", "Failed"}

\* what update() may pass: any part of a toast's properties
UpdateProps == {[title |-> "Failed"], [open |-> TRUE]}

\* count = (count + 1) % Number.MAX_SAFE_INTEGER; the guards keep count far
\* below the modulus
genId(c) == c + 1

ToastIds(state) == {state.toasts[i].id : i \in 1..Len(state.toasts)}

\* { ...t, ...props }
Merge(t, props) == [f \in DOMAIN t |-> IF f \in DOMAIN props THEN props[f] ELSE t[f]]

\* addToRemoveQueue without the toastTimeouts.has(toastId) early return
addToRemoveQueueAlways(q, toastId) ==
    [timeouts |-> q.timeouts \cup {toastId},
     timers |-> [q.timers EXCEPT ![toastId] = @ + 1]]

\* addToRemoveQueue on q = [timeouts, timers]: nothing when the Map has the
\* id, else setTimeout and toastTimeouts.set
addToRemoveQueue(q, toastId) ==
    IF toastId \in q.timeouts
    THEN q
    ELSE [timeouts |-> q.timeouts \cup {toastId},
          timers |-> [q.timers EXCEPT ![toastId] = @ + 1]]

\* state.toasts.forEach((toast) => addToRemoveQueue(toast.id)), first n toasts
RECURSIVE QueueAll(_, _, _)
QueueAll(q, toasts, n) ==
    IF n = 0 THEN q ELSE addToRemoveQueue(QueueAll(q, toasts, n - 1), toasts[n].id)

\* ADD_TOAST without the slice
ReduceAddUnlimited(state, toast) == [state EXCEPT !.toasts = <<toast>> \o @]

\* ADD_TOAST: [action.toast, ...state.toasts].slice(0, TOAST_LIMIT)
ReduceAdd(state, toast) ==
    [state EXCEPT !.toasts = SubSeq(<<toast>> \o @, 1, Min(TOAST_LIMIT, Len(@) + 1))]

\* UPDATE_TOAST: the toast with action.toast.id is merged with action.toast
ReduceUpdate(state, id, props) ==
    [state EXCEPT !.toasts =
        [i \in 1..Len(@) |-> IF @[i].id = id THEN Merge(@[i], props) ELSE @[i]]]

\* DISMISS_TOAST, the state part: open: false for the toast, or for all
ReduceDismiss(state, toastId) ==
    [state EXCEPT !.toasts =
        [i \in 1..Len(@) |->
            IF @[i].id = toastId \/ toastId = Undefined
            THEN [@[i] EXCEPT !.open = FALSE]
            ELSE @[i]]]

\* DISMISS_TOAST, the side effect on the removal queue
QueueDismiss(q, state, toastId) ==
    IF toastId # Undefined
    THEN addToRemoveQueue(q, toastId)
    ELSE QueueAll(q, state.toasts, Len(state.toasts))

\* REMOVE_TOAST with a toastId: state.toasts.filter((t) => t.id !== toastId)
ReduceRemove(state, toastId) ==
    [state EXCEPT !.toasts = SelectSeq(@, LAMBDA t : t.id # toastId)]

storeVars == <<user, badges, missions, stats, authSession, now, zone, hist,
               storageOwner, otherTab>>

\* a call into the toast module
ToastCall(r) ==
    /\ budget.steps > 0
    /\ budget' = [budget EXCEPT !.steps = @ - 1]
    /\ ret' = r
    /\ UNCHANGED <<storeVars, hookVars>>

\* toast(props)
CallToast ==
    \E title \in Titles :
        LET id == genId(count) IN
        /\ count < MaxToasts
        /\ count' = id
        /\ memoryState' = ReduceAdd(memoryState, [id |-> id, title |-> title, open |-> TRUE])
        /\ ToastCall([VoidRet("toast", title, 0) EXCEPT !.value = <<id>>])
        /\ UNCHANGED <<toastTimeouts, timers>>

\* the update() of a toast that toast() returned
CallUpdate ==
    \E id \in 1..count, props \in UpdateProps :
        /\ memoryState' = ReduceUpdate(memoryState, id, props)
        /\ ToastCall(VoidRet("update", "", id))
        /\ UNCHANGED <<toastTimeouts, timers, count>>

\* the dismiss() of a toast that toast() returned, or useToast().dismiss(toastId?)
CallDismiss ==
    \E toastId \in (1..count) \cup {Undefined} :
        LET q == QueueDismiss([timeouts |-> toastTimeouts, timers |-> timers],
                              memoryState, toastId) IN
        /\ toastTimeouts' = q.timeouts
        /\ timers' = q.timers
        /\ memoryState' = ReduceDismiss(memoryState, toastId)
        /\ ToastCall(VoidRet("dismiss", "", toastId))
        /\ UNCHANGED count

\* a removal timer fires: toastTimeouts.delete(toastId), dispatch REMOVE_TOAST
TimerFires ==
    \E toastId \in 1..MaxToasts :
        /\ timers[toastId] > 0
        /\ timers' = [timers EXCEPT ![toastId] = @ - 1]
        /\ toastTimeouts' = toastTimeouts \ {toastId}
        /\ memoryState' = ReduceRemove(memoryState, toastId)
        /\ UNCHANGED <<count, ret, budget>>
        /\ UNCHANGED <<storeVars, hookVars>>

InitToasts ==
    /\ InitStore
    /\ zone = NoChange
    /\ budget = [steps |-> ToastCalls, days |-> 0, rewards |-> 0]

NextToasts ==
    \/ CallToast
    \/ CallUpdate
    \/ CallDismiss
    \/ TimerFires

SpecToasts == InitToasts /\ [][NextToasts]_vars

\* the browser runs every timer that was set
SpecToastsLive == InitToasts /\ [][NextToasts]_vars /\ WF_vars(TimerFires)

(***************************************************************************)
(* The API client (fetchAPI) and the useDoubtSolver hook; the other hooks  *)
(* of hooks/useGemini.ts differ in the endpoint and the fallback message.  *)
(* A JSON object is a record with the fields it has, null and undefined    *)
(* are the strings "null" and "undefined", JSON null is JsonNull.  A       *)
(* promise's outcome is [rejected, value].                                 *)
(***************************************************************************)
JsonNull == [isNull |-> TRUE]

\* {}
EmptyObject == [f \in {} |-> ""]

\* what response.json() can give: no JSON at all, null, or an object
Bodies ==
    {[parses |-> FALSE, json |-> JsonNull],
     [parses |-> TRUE, json |-> JsonNull],
     [parses |-> TRUE, json |-> [error |-> ""]],
     [parses |-> TRUE, json |-> [error |-> "quota exceeded"]],
     [parses |-> TRUE, json |-> [success |-> TRUE, data |-> "answer"]],
     [parses |-> TRUE, json |-> [success |-> TRUE]],
     [parses |-> TRUE, json |-> [success |-> FALSE, error |-> "bad question"]],
     [parses |-> TRUE, json |-> [success |-> FALSE]]}

\* what fetch() can do: reject with a TypeError, or resolve to a response
Responses ==
    {[thrown |-> TRUE, isError |-> TRUE, message |-> "Failed to fetch", ok |-> FALSE,
      status |-> 0, body |-> [parses |-> FALSE, json |-> JsonNull]]}
    \cup {[thrown |-> FALSE, isError |-> FALSE, message |-> "", ok |-> st = 200,
           status |-> st, body |-> b] : st \in {200, 500}, b \in Bodies}

Field(o, f) == IF f \in DOMAIN o THEN o[f] ELSE "undefined"

\* o.error || fallback
ErrorOr(o, fallback) ==
    IF "error" \in DOMAIN o /\ o.error # "" THEN o.error ELSE fallback

HttpStatus(st) == IF st = 500 THEN "HTTP 500" ELSE "HTTP 200"

Resolved(v) == [rejected |-> FALSE, value |-> v]
Rejected(e) == [rejected |-> TRUE, value |-> e]

\* error instanceof Error ? error.message : "Unknown error"
MessageOf(e) == IF e.isError THEN e.message ELSE "Unknown error"

Thrown(message) == [isError |-> TRUE, message |-> message]

\* the try block of fetchAPI
FetchTry(response) ==
    IF response.thrown
    THEN Rejected(Thrown(response.message))
    ELSE IF ~response.ok
    THEN LET errorData == IF response.body.parses THEN response.body.json
                          ELSE EmptyObject IN
         IF errorData = JsonNull
         THEN Rejected(Thrown("Cannot read properties of null"))
         ELSE Resolved([success |-> FALSE,
                        error |-> ErrorOr(errorData, HttpStatus(response.status))])
    ELSE IF ~response.body.parses
    THEN Rejected(Thrown("Unexpected token"))
    ELSE Resolved(response.body.json)

\* fetchAPI without its catch block
fetchAPINoCatch(response) == FetchTry(response)

fetchAPI(response) ==
    LET t == FetchTry(response) IN
    IF t.rejected
    THEN Resolved([success |-> FALSE, error |-> MessageOf(t.value)])
    ELSE t

\* the try block of solve() after the await: [rejected, value, state]
SolveTry(api) ==
    IF api.rejected
    THEN [rejected |-> TRUE, value |-> api.value, state |-> hookState]
    ELSE LET result == api.value IN
         IF result = JsonNull
         THEN [rejected |-> TRUE, value |-> Thrown("Cannot read properties of null"),
               state |-> hookState]
         ELSE IF "success" \in DOMAIN result /\ result.success
         THEN [rejected |-> FALSE, value |-> result,
               state |-> [data |-> Field(result, "data"), loading |-> FALSE,
                          error |-> "null"]]
         ELSE [rejected |-> FALSE, value |-> result,
               state |-> [data |-> "null", loading |-> FALSE,
                          error |-> ErrorOr(result, "Failed to solve doubt")]]

\* solve() from the await on: the outcome of its promise and the state it sets
SolveSettle(api) ==
    LET t == SolveTry(api) IN
    IF t.rejected
    THEN [rejected |-> FALSE,
          value |-> [success |-> FALSE, error |-> MessageOf(t.value)],
          state |-> [data |-> "null", loading |-> FALSE, error |-> MessageOf(t.value)]]
    ELSE t

Unresolved == {n \in 1..Len(requests) : requests[n].settled = <<>>}

\* solve(question): the state is reset and the request is sent
CallSolve ==
    /\ budget.steps > 0
    /\ budget' = [budget EXCEPT !.steps = @ - 1]
    /\ hookState' = [data |-> "null", loading |-> TRUE, error |-> "null"]
    /\ requests' = Append(requests, [settled |-> <<>>])
    /\ ret' = VoidRet("solve", "", Len(requests) + 1)
    /\ UNCHANGED <<storeVars, toastVars>>

\* the request of the n-th solve() settles and solve() runs to its end
SolveResumes ==
    \E n \in Unresolved, response \in Responses :
        LET api == fetchAPI(response)
            end == SolveSettle(api) IN
        /\ hookState' = end.state
        /\ requests' = [requests EXCEPT ![n].settled = <<end.state>>]
        /\ ret' = [GetterRet("solve.end", <<response, api, end>>) EXCEPT !.num = n]
        /\ UNCHANGED <<budget, storeVars, toastVars>>

InitHooks ==
    /\ InitStore
    /\ zone = NoChange
    /\ budget = [steps |-> HookCalls, days |-> 0, rewards |-> 0]

NextHooks ==
    \/ CallSolve
    \/ SolveResumes

SpecHooks == InitHooks /\ [][NextHooks]_vars

(***************************************************************************)
(* Properties.                                                             *)
(***************************************************************************)
\* the step is a call of the store operation op
Called(op) == budget'.steps = budget.steps - 1 /\ now' = now /\ ret'.op = op

IsUnlocked(bs, badgeId) == \E i \in 1..Len(bs) : bs[i].id = badgeId /\ bs[i].unlocked

RewardOf(badgeId) ==
    CASE badgeId = "first_step" -> 25 [] badgeId = "correct_step" -> 50
      [] badgeId = "quiz_master" -> 100 [] badgeId = "perfect_score" -> 150
      [] badgeId = "flashcard_fan" -> 75 [] badgeId = "week_streak" -> 200
      [] badgeId = "study_planner" -> 50 [] badgeId = "doubt_solver" -> 100
      [] badgeId = "level_10" -> 250 [] badgeId = "ocr_explorer" -> 50
      [] OTHER -> 0

\* C1: in every reachable state the stored level is floor(sqrt(xp / 100)) + 1,
\* that is (level - 1)^2 * 100 <= xp < level^2 * 100.
C1_LevelDerivedFromXP ==
    /\ user.level >= 1
    /\ (user.level - 1) * (user.level - 1) * 100 <= user.xp
    /\ user.xp < user.level * user.level * 100

\* C2: a call of updateStreak on a calendar day on which updateStreak has
\* already run leaves streak and lastActiveDate unchanged.
C2_SameDayIdempotent ==
    [][(Called("updateStreak") /\ TodayStr(now) \in hist.activeRun)
          => /\ user'.streak = user.streak
             /\ user'.lastActiveDate = user.lastActiveDate]_vars

\* C3: the first updateStreak of day d makes the streak the previous streak
\* + 1 when lastActiveDate is d - 1, makes it 1 when lastActiveDate is two or
\* more days before d, and sets lastActiveDate to d in both cases.
C3_FirstCallOfDay ==
    [][(Called("updateStreak") /\ TodayStr(now) \notin hist.activeRun
                                /\ user.lastActiveDate < TodayStr(now))
          => /\ user.lastActiveDate = TodayStr(now) - 1 => user'.streak = user.streak + 1
             /\ user.lastActiveDate < TodayStr(now) - 1 => user'.streak = 1
             /\ user'.lastActiveDate = TodayStr(now)]_vars

\* C4: once updateStreak has run, the streak is the number of consecutive
\* calendar days, ending at the day of that run, on which updateStreak ran;
\* the first run on a freshly created store makes it 1.
C4_StreakCountsActiveDays ==
    ret.op = "updateStreak" => user.streak = Cardinality(hist.activeRun)

\* the base amounts and the multiplier tiers, as the claims give them
BaseOf(type) ==
    CASE type = "correct_step" -> 10 [] type = "submit_step" -> 2
      [] type = "complete_quiz" -> 50 [] type = "perfect_quiz" -> 25
      [] type = "review_flashcard" -> 3 [] OTHER -> 0

\* C5: addXP returns xpGained = floor(base * multiplier), base the override
\* if given and else the table value, multiplier the tier of the current
\* streak, one of 1.00, 1.25, 1.50, 1.75, 2.00; streak 7 and base 10 give 15;
\* xp 0, streak 0 and complete_quiz give 50 and leave the level at 1.
C5_XPGainedIsFloorOfProduct ==
    [][Called("addXP") =>
        LET base == IF ret'.num # NoAmount THEN ret'.num ELSE BaseOf(ret'.arg)
            gained == ret'.xpGained
        IN /\ \E m \in {100, 125, 150, 175, 200} :
                /\ m = 200 <=> user.streak >= 30
                /\ m = 175 <=> user.streak \in 14..29
                /\ m = 150 <=> user.streak \in 7..13
                /\ m = 125 <=> user.streak \in 3..6
                /\ m = 100 <=> user.streak \in 0..2
                /\ gained * 100 <= base * m
                /\ base * m < (gained + 1) * 100
           /\ (user.streak = 7 /\ base = 10) => gained = 15
           /\ (user.xp = 0 /\ user.streak = 0 /\ ret'.arg = "complete_quiz"
                 /\ ret'.num = NoAmount)
                => (gained = 50 /\ user'.level = 1)]_vars

C5_Witness ==
    /\ ret.op = "addXP" /\ ret.arg = "correct_step" /\ ret.num = NoAmount
    /\ user.streak = 7 /\ ret.xpGained = 15

\* C6: unlockBadge on a badge that is already unlocked, or on an unknown
\* badge id, returns null and leaves user.xp, user.badges and the badge list
\* unchanged.
C6_UnlockIdempotent ==
    [][(Called("unlockBadge")
          /\ (ret'.arg \notin BadgeIds \/ IsUnlocked(badges, ret'.arg)))
          => /\ ret'.badge = NullBadge
             /\ user'.xp = user.xp
             /\ user'.badges = user.badges
             /\ badges' = badges]_vars

C6_Witness ==
    /\ ret.op = "unlockBadge" /\ ret.badge = NullBadge
    /\ IsUnlocked(badges, ret.arg)
    /\ hist.badgeAwards[ret.arg] = 1
    /\ budget.steps = MaxCalls - 2

\* C7: no badge goes from unlocked back to locked, and the reward of each
\* badge is added to the XP at most once, over any sequence of operations.
C7_BadgeUnlockIsTerminal ==
    [][/\ \A i \in 1..Len(badges) : badges[i].unlocked => badges'[i].unlocked
       /\ \A b \in BadgeIds : hist.badgeAwards'[b] <= 1]_vars

C7_Witness ==
    /\ ret.op = "unlockBadge" /\ ret.badge = NullBadge
    /\ IsUnlocked(badges, ret.arg)
    /\ user.badges = <<>>
    /\ user.xp = 0

\* C8 as stated: unlocking a locked badge adds exactly its xpReward to the
\* XP whatever the streak, marks the badge unlocked with an unlock timestamp
\* and returns the updated badge.
C8_UnlockReturnsUpdatedBadge ==
    [][(Called("unlockBadge") /\ ret'.arg \in BadgeIds /\ ~IsUnlocked(badges, ret'.arg))
          => \E i \in 1..Len(badges) :
                /\ badges[i].id = ret'.arg
                /\ user'.xp = user.xp + RewardOf(ret'.arg)
                /\ badges'[i].unlocked /\ badges'[i].unlockedAt = now
                /\ ret'.badge = badges'[i]]_vars

\* C8 amended: ... and returns the badge marked unlocked, without the unlock
\* timestamp that the stored badge carries.
C8_UnlockReturnsUnlockedCopy ==
    [][(Called("unlockBadge") /\ ret'.arg \in BadgeIds /\ ~IsUnlocked(badges, ret'.arg))
          => \E i \in 1..Len(badges) :
                /\ badges[i].id = ret'.arg
                /\ user'.xp = user.xp + RewardOf(ret'.arg)
                /\ badges'[i].unlocked /\ badges'[i].unlockedAt = now
                /\ \A j \in 1..Len(badges) : j # i => badges'[j] = badges[j]
                /\ ret'.badge = [badges'[i] EXCEPT !.unlockedAt = NoTime]
                /\ ret'.badge.unlocked]_vars

C8_Witness ==
    /\ ret.op = "unlockBadge" /\ ret.badge.unlocked /\ ret.badge.id = "perfect_score"
    /\ user.streak = 14
    /\ user.xp = 350

\* C9: every mission has 0 <= progress <= target and is completed exactly
\* when progress = target; updateMissionProgress with a positive amount
\* never lowers the progress of a mission.
C9_MissionProgressBounded ==
    [][/\ \A i \in 1..Len(missions') :
            /\ 0 <= missions'[i].progress
            /\ missions'[i].progress <= missions'[i].target
            /\ missions'[i].completed <=> (missions'[i].progress = missions'[i].target)
       /\ (Called("updateMissionProgress") /\ ret'.num > 0)
            => \A i \in 1..Len(missions) : missions'[i].progress >= missions[i].progress]_vars

C9_Witness ==
    /\ ret.op = "updateMissionProgress" /\ ret.arg = "quiz" /\ ret.num = 2
    /\ missions[1].progress = 2 /\ missions[1].completed
    /\ budget.steps = MaxCalls - 2

\* C10: on a mission not yet completed a call with amount 1 adds one to the
\* progress, and the call that brings the progress to the target completes
\* the mission and makes exactly one mission-completion award; a further
\* call for that type changes neither the mission nor the XP, until a reset.
C10_MissionCompletesOnce ==
    [][\A i \in 1..Len(missions) :
        (Called("updateMissionProgress") /\ ret'.arg = missions[i].type) =>
            IF missions[i].completed
            THEN /\ missions'[i] = missions[i]
                 /\ user'.xp = user.xp
                 /\ hist'.lastAwards = 0
                 /\ hist'.missionAwards[missions[i].id] = 1
            ELSE /\ ret'.num = 1 => missions'[i].progress = missions[i].progress + 1
                 /\ missions'[i].completed <=> (missions'[i].progress = missions[i].target)
                 /\ hist'.lastAwards = IF missions'[i].completed THEN 1 ELSE 0
                 /\ hist'.missionAwards[missions[i].id] = hist'.lastAwards
                 /\ missions'[i].completed => user'.xp > user.xp]_vars

C10_Witness ==
    /\ ret.op = "updateMissionProgress" /\ ret.arg = "flashcard" /\ ret.num = 1
    /\ missions[2].completed /\ missions[2].progress = 15
    /\ hist.lastAwards = 0
    /\ hist.missionAwards["mission_flashcard"] = 1
    /\ user.xp = 50
    /\ budget.steps = MissionCalls - 9

\* C11: when updateMissionProgress brings a mission to its target, the XP
\* added for the completion is the mission's xpReward, the amount the
\* mission card shows, whatever the streak.
C11_MissionAwardIsReward ==
    [][\A i \in 1..Len(missions) :
        (Called("updateMissionProgress") /\ ~missions[i].completed
                                         /\ missions'[i].completed)
            => user'.xp = user.xp + missions[i].xpReward]_vars

\* C12: when the calendar day has changed, the first use of the store on
\* the new day (the app loads and runs updateStreak) leaves every mission
\* with progress 0 and not completed.
C12_MissionsResetDaily ==
    [][(now'.day > now.day /\ ret'.op = "updateStreak")
          => \A i \in 1..Len(missions') :
                missions'[i].progress = 0 /\ ~missions'[i].completed]_vars

\* C13: resetDailyMissions sets every mission to progress 0 and not
\* completed, with id, type, target and xpReward as in the catalog, and
\* leaves the user, the badge list and the stats unchanged.
C13_ResetRestoresCatalog ==
    [][Called("resetDailyMissions")
          => /\ Len(missions') = Len(DAILY_MISSIONS)
             /\ \A i \in 1..Len(DAILY_MISSIONS) :
                   /\ missions'[i].id = DAILY_MISSIONS[i].id
                   /\ missions'[i].type = DAILY_MISSIONS[i].type
                   /\ missions'[i].target = DAILY_MISSIONS[i].target
                   /\ missions'[i].xpReward = DAILY_MISSIONS[i].xpReward
                   /\ missions'[i].progress = 0
                   /\ ~missions'[i].completed
             /\ user' = user
             /\ badges' = badges
             /\ stats' = stats]_vars

\* reset after a counter was incremented (first_step unlocked, 25 XP) and
\* the study mission was completed (40 XP)
C13_Witness ==
    /\ ret.op = "resetDailyMissions"
    /\ stats.stepsSubmitted = 1 /\ IsUnlocked(badges, "first_step")
    /\ user.xp = 65
    /\ \A i \in 1..Len(missions) : missions[i].progress = 0 /\ ~missions[i].completed
    /\ budget.steps = MaxCalls - 3

\* the badge rules of the counters, as the claims give them
BadgeOfStat(stat) ==
    CASE stat = "stepsSubmitted" -> "first_step"
      [] stat = "correctSteps" -> "correct_step"
      [] stat = "quizzesCompleted" -> "quiz_master"
      [] stat = "flashcardsReviewed" -> "flashcard_fan"
      [] stat = "studyPlansCreated" -> "study_planner"
      [] stat = "doubtsAsked" -> "doubt_solver"
      [] stat = "imagesUploaded" -> "ocr_explorer"

RuleMet(stat, n) ==
    CASE stat = "stepsSubmitted" -> n = 1
      [] stat = "correctSteps" -> n = 1
      [] stat = "quizzesCompleted" -> n >= 5
      [] stat = "flashcardsReviewed" -> n >= 50
      [] stat = "studyPlansCreated" -> n = 1
      [] stat = "doubtsAsked" -> n >= 10
      [] stat = "imagesUploaded" -> n >= 5

\* C14: incrementStat adds exactly 1 to the named counter and changes no
\* other counter; the call at which the counter meets the rule of its badge
\* unlocks that badge, if still locked, and adds its reward once; every
\* other call unlocks nothing and awards nothing (the 5th quizzesCompleted
\* increment unlocks quiz_master, the 6th and later ones change no badge
\* and no XP).
C14_IncrementUnlocksAtThreshold ==
    [][\A stat \in StatNames :
        (Called("incrementStat") /\ ret'.arg = stat) =>
            LET b == BadgeOfStat(stat)
                fresh == RuleMet(stat, stats[stat] + 1) /\ ~IsUnlocked(badges, b)
            IN /\ stats' = [stats EXCEPT ![stat] = @ + 1]
               /\ missions' = missions
               /\ RuleMet(stat, stats[stat]) => IsUnlocked(badges, b)
               /\ IF fresh
                  THEN /\ IsUnlocked(badges', b)
                       /\ user'.xp = user.xp + RewardOf(b)
                       /\ hist'.badgeAwards = [hist.badgeAwards EXCEPT ![b] = 1]
                       /\ \A i \in 1..Len(badges) :
                             badges[i].id # b => badges'[i] = badges[i]
                  ELSE /\ badges' = badges
                       /\ user' = user
                       /\ hist'.badgeAwards = hist.badgeAwards]_vars

\* the 6th quizzesCompleted increment: quiz_master was unlocked by the 5th
C14_Witness ==
    /\ ret.op = "incrementStat" /\ ret.arg = "quizzesCompleted"
    /\ stats.quizzesCompleted = 6
    /\ user.badges = <<"quiz_master">>
    /\ user.xp = 100
    /\ hist.badgeAwards["quiz_master"] = 1

\* C15: getStreakMultiplier depends on the current streak only and changes
\* nothing: 2.00 from 30 days, 1.75 for 14..29, 1.50 for 7..13, 1.25 for
\* 3..6 and 1.00 for 0..2; it never decreases as the streak grows and never
\* exceeds 2.
C15_MultiplierTiers ==
    [][Called("getStreakMultiplier") =>
        LET m == ret'.value[1]
        IN /\ user.streak >= 30 => m = 200
           /\ user.streak \in 14..29 => m = 175
           /\ user.streak \in 7..13 => m = 150
           /\ user.streak \in 3..6 => m = 125
           /\ user.streak \in 0..2 => m = 100
           /\ m <= 200
           /\ \A k \in 0..user.streak : getStreakMultiplier(k) <= m
           /\ <<user, badges, missions, stats>>' = <<user, badges, missions, stats>>]_vars

C15_Witness ==
    /\ ret.op = "getStreakMultiplier"
    /\ user.streak = 30
    /\ ret.value = <<200>>

\* C16: in every reachable state in which the player has reached level 10,
\* that is user.level >= 10 or, the same by the level formula, a cumulative
\* XP of 8100 or more, the badge level_10 is unlocked.
C16_Level10BadgeUnlocked ==
    (user.level >= 10 \/ user.xp >= 8100) => IsUnlocked(badges, "level_10")

\* C17: in every reachable state with user.streak >= 7 the badge week_streak
\* is unlocked; the updateStreak call that brings the streak to 7 or more
\* unlocks it, if still locked, and its reward is added once.
C17_WeekStreakBadge ==
    [][/\ user'.streak >= 7 => IsUnlocked(badges', "week_streak")
       /\ hist'.badgeAwards["week_streak"] <= 1
       /\ (ret'.op = "updateStreak" /\ user.streak < 7 /\ user'.streak >= 7
              /\ ~IsUnlocked(badges, "week_streak"))
            => /\ user'.xp = user.xp + RewardOf("week_streak")
               /\ hist'.badgeAwards["week_streak"] = 1
       /\ (ret'.op = "updateStreak" /\ IsUnlocked(badges, "week_streak"))
            => (user'.xp = user.xp /\ badges' = badges)]_vars

\* the eighth consecutive day: the badge came with the seventh
C17_Witness ==
    /\ ret.op = "updateStreak"
    /\ user.streak = 8
    /\ IsUnlocked(badges, "week_streak")
    /\ user.badges = <<"week_streak">>
    /\ user.xp = 200

\* C18: with two tabs open, a tab that performs a mutation has come to hold
\* the state the other tab persisted, and XP awarded in one tab is not
\* lost by a later addXP in the other: the persisted XP never goes down.
C18_TabsInSync ==
    [][(otherTab.open /\ budget'.steps = budget.steps - 1
          /\ ret'.op \in {"addXP", "otherTab.addXP"})
          => /\ storage = Persisted(IF ret'.op = "addXP" THEN Store ELSE otherTab.s)
             /\ storage'.user.xp >= storage.user.xp]_vars

\* C19: getLevelProgress returns current = xp - (level - 1)^2 * 100 and
\* next = level^2 * 100 - (level - 1)^2 * 100 with 0 <= current <= next,
\* and a progress between 0 and 100 percent.
C19_LevelProgressIsPercentage ==
    [][Called("getLevelProgress") =>
        LET current == ret'.value[1]
            next == ret'.value[2]
            progress == ret'.value[3]
        IN /\ current = user.xp - (user.level - 1) * (user.level - 1) * 100
           /\ next = user.level * user.level * 100
                        - (user.level - 1) * (user.level - 1) * 100
           /\ 0 <= current /\ current <= next
           /\ 0 <= progress /\ progress <= 10000]_vars

\* C20: every activity counter is a non-negative integer and no store
\* operation, logout included, ever lowers one.
C20_CountersNeverDecrease ==
    [][\A n \in StatNames :
          /\ stats'[n] \in Nat
          /\ stats'[n] >= stats[n]]_vars

\* logout after two increments: the counter is still 2
C20_Witness ==
    /\ ret.op = "logout"
    /\ stats.doubtsAsked = 2
    /\ user.xp = 0

\* C21: calculateLevel(xp) = L exactly when (L - 1)^2 * 100 <= xp < L^2 * 100,
\* calculateLevel(0) = 1, and the level of a larger xp is never smaller.
C21_LevelFunction ==
    [][Called("calculateLevel") =>
        LET xp == ret'.num
            L == ret'.value[1]
        IN /\ L >= 1
           /\ (L - 1) * (L - 1) * 100 <= xp
           /\ xp < L * L * 100
           /\ xp = 0 => L = 1
           /\ (ret.op = "calculateLevel" /\ ret.num <= xp) => ret.value[1] <= L]_vars

\* the first xp of level 10, asked after the last xp of level 9
C21_Witness ==
    /\ ret.op = "calculateLevel" /\ ret.num = 8100 /\ ret.value = <<10>>
    /\ budget.steps = LevelFnCalls - 2

\* C22: addXP returns leveledUp = true exactly when the level computed from
\* the new XP (the XP before the call plus xpGained) is above the level
\* stored before the call; it returns that level as newLevel in this case
\* and leaves newLevel undefined otherwise.
C22_LeveledUpFlag ==
    [][Called("addXP") =>
        \E L \in 1..(((user.xp + ret'.xpGained) \div 100) + 1) :
            /\ (L - 1) * (L - 1) * 100 <= user.xp + ret'.xpGained
            /\ user.xp + ret'.xpGained < L * L * 100
            /\ ret'.leveledUp <=> (L > user.level)
            /\ ret'.newLevel = IF L > user.level THEN L ELSE 0]_vars

\* the call that takes the player from level 9 to level 10
C22_Witness ==
    /\ ret.op = "addXP" /\ ret.leveledUp /\ ret.newLevel = 10
    /\ ret.num = 100 /\ ret.xpGained = 100
    /\ IsUnlocked(badges, "level_10")
    /\ user.xp = 8350

\* the xpReward of the unlocked badges among the first n of bs, summed
RECURSIVE UnlockedRewards(_, _)
UnlockedRewards(bs, n) ==
    IF n = 0 THEN 0
    ELSE UnlockedRewards(bs, n - 1) + (IF bs[n].unlocked THEN bs[n].xpReward ELSE 0)

\* C23: as long as the profile has not been reset by logout, user.xp is the
\* sum of the xpGained of all addXP calls made so far, those made inside
\* updateMissionProgress included, plus the xpReward of every unlocked
\* badge: no write of an operation undoes an award of a nested call.
C23_XPConserved ==
    user.xp = hist.xpGained + UnlockedRewards(badges, Len(badges))

\* a completed mission (40 XP through a nested addXP) and a badge unlocked
\* by incrementStat (25 XP)
C23_Witness ==
    /\ ret.op = "incrementStat" /\ ret.arg = "stepsSubmitted"
    /\ missions[4].completed
    /\ hist.xpGained = 40
    /\ IsUnlocked(badges, "first_step")
    /\ user.xp = 65

\* C24: in every reachable state, also after logout, user.badges holds
\* exactly the ids of the badges whose unlocked flag is true, each id once.
C24_UserBadgesMatchFlags ==
    /\ \A i \in 1..Len(badges) :
          badges[i].unlocked <=> (\E j \in 1..Len(user.badges) : user.badges[j] = badges[i].id)
    /\ \A j \in 1..Len(user.badges) : user.badges[j] \in BadgeIds
    /\ \A j, k \in 1..Len(user.badges) : user.badges[j] = user.badges[k] => j = k

\* C25: logout removes the 'auth-session' entry and puts the user profile
\* back to its default (xp 0, level 1, streak 0, no badges, lastActiveDate
\* today); isAuthenticated() called after it returns false.
C25_LogoutResetsProfile ==
    [][/\ Called("logout")
            => /\ ~authSession'
               /\ user'.xp = 0 /\ user'.level = 1 /\ user'.streak = 0
               /\ user'.badges = <<>>
               /\ user'.lastActiveDate = TodayStr(now)
       /\ Called("isAuthenticated")
            => /\ ret'.value = <<authSession>>
               /\ ret.op = "logout" => ret'.value = <<FALSE>>]_vars

\* isAuthenticated() after a logout on the day after the store was created
C25_Witness ==
    /\ ret.op = "isAuthenticated" /\ ret.value = <<FALSE>>
    /\ ~authSession
    /\ user = DefaultUser(now)
    /\ now.day = 1
    /\ budget.steps = AuthCalls - 3

\* C26: the toast state never holds more than one toast, and after a toast()
\* call the one toast is the toast just added, open
C26_AtMostOneToast ==
    [][/\ Len(memoryState'.toasts) <= 1
       /\ Called("toast") =>
            /\ Len(memoryState'.toasts) = 1
            /\ memoryState'.toasts[1] =
                   [id |-> ret'.value[1], title |-> ret'.arg, open |-> TRUE]
            /\ ret'.value[1] \notin ToastIds(memoryState)]_vars

\* toast() while an earlier toast is shown
C26_Witness ==
    /\ ret.op = "toast"
    /\ count >= 2
    /\ Len(memoryState.toasts) = 1
    /\ memoryState.toasts[1].id = count

\* the step is the removal timer of toastId firing
TimerFired(toastId) == timers'[toastId] = timers[toastId] - 1

\* C27: a dismiss closes the toast and leaves one removal timer pending for its
\* id, never more than one; when the timer fires the toast is gone, and nothing
\* changes if it was already evicted; every pending removal happens
C27_DismissRemovesOnce ==
    /\ [][\A toastId \in 1..MaxToasts :
            /\ timers'[toastId] <= 1
            /\ (Called("dismiss") /\ ret'.num \in {toastId, Undefined}
                    /\ toastId \in ToastIds(memoryState)) =>
                 /\ timers'[toastId] = 1
                 /\ \A i \in 1..Len(memoryState'.toasts) :
                       memoryState'.toasts[i].id = toastId =>
                           ~memoryState'.toasts[i].open
            /\ TimerFired(toastId) =>
                 /\ toastId \notin ToastIds(memoryState')
                 /\ toastId \notin ToastIds(memoryState) => memoryState' = memoryState]_vars
    /\ \A toastId \in 1..MaxToasts :
          (timers[toastId] > 0) ~> (timers[toastId] = 0 /\ toastId \notin ToastIds(memoryState))

\* a toast dismissed twice, its timer still pending
C27_Witness ==
    /\ ret.op = "dismiss"
    /\ budget.steps <= ToastCalls - 3
    /\ \E i \in 1..Len(memoryState.toasts) :
          /\ ~memoryState.toasts[i].open
          /\ timers[memoryState.toasts[i].id] = 1
          /\ ret.num = memoryState.toasts[i].id

\* C28: while a request started through the hook is unresolved, loading is
\* true; when all have resolved, data and error are those of the request
\* started last
C28_LoadingTracksRequests ==
    /\ Unresolved # {} => hookState.loading
    /\ (Unresolved = {} /\ requests # <<>>) =>
          hookState = requests[Len(requests)].settled[1]

\* the step is the end of a solve() call
SolveEnded == ret'.op = "solve.end" /\ requests' # requests

\* C29: fetchAPI and solve() never reject; a thrown network error or a non-OK
\* status gives {success: false, error: non-empty}, and the hook ends with
\* loading false, data null and an error; a successful result ends with
\* loading false, error null and the result's data
C29_NeverRejects ==
    [][SolveEnded =>
        LET response == ret'.value[1]
            api == ret'.value[2]
            end == ret'.value[3] IN
        /\ ~api.rejected
        /\ ~end.rejected
        /\ (response.thrown \/ ~response.ok) =>
              /\ api.value # JsonNull
              /\ DOMAIN api.value = {"success", "error"}
              /\ api.value.success = FALSE
              /\ api.value.error \notin {"", "null", "undefined"}
              /\ ~hookState'.loading
              /\ hookState'.data = "null"
              /\ hookState'.error \notin {"", "null", "undefined"}
        /\ (api.value # JsonNull /\ "success" \in DOMAIN api.value /\ api.value.success) =>
              /\ hookState' = [data |-> Field(api.value, "data"), loading |-> FALSE,
                               error |-> "null"]
              /\ end.value = api.value]_vars

\* after a request that got HTTP 500 with a body that is JSON null
C29_Witness ==
    /\ ret.op = "solve.end"
    /\ ~ret.value[1].thrown
    /\ ret.value[1].status = 500
    /\ ret.value[1].body = [parses |-> TRUE, json |-> JsonNull]
    /\ hookState.error = "Cannot read properties of null"

====
